---- MODULE Spec2Model ----
(***************************************************************************)
(* A state-machine model of the PatchControlPoints sample                  *)
(* (samples/extensions/patch_control_points/patch_control_points.cpp).     *)
(*                                                                         *)
(* The object's fields are the record `sample`; the physical device the    *)
(* framework hands to request_gpu_features is `gpu`; `phase` is the        *)
(* position of the framework's life cycle.  `ghost` is history kept for    *)
(* the properties only: the name of the most recent call, its events       *)
(* (`trace`), what it returned and the number of build_command_buffers     *)
(* invocations so far.                                                     *)
(*                                                                         *)
(* Floating point values that the code uses are kept in hundredths         *)
(* (1.0f is 100, -3.95f is -395).                                          *)
(***************************************************************************)
EXTENDS Integers, Sequences, FiniteSets, TLC

VARIABLES sample, gpu, phase, ghost

vars == <<sample, gpu, phase, ghost>>

(***************************************************************************)
(* Bounds of the model.                                                    *)
(***************************************************************************)
\* number of swapchain images, hence of draw command buffers and framebuffers
NumFrames == 2
\* camera poses are 0 (default constructed), 1 (set by prepare), 2..MaxView (user input)
MaxView == 2
\* the slider's range is sampled at SliderSteps + 1 evenly spaced positions
SliderSteps == 3

(***************************************************************************)
(* Program constants.                                                      *)
(***************************************************************************)
\* slider_float("Tessellation Factor", ..., 1.0f, 6.0f)
SliderMin == 100
SliderMax == 600
\* "Maximum tessellation factor is set to 4.0"
DocumentedMaxTessFactor == 400
\* constexpr uint32_t patch_control_points_triangle = 3
patch_control_points_triangle == 3

NULL == [handle |-> "VK_NULL_HANDLE"]

\* the positions the user can leave the slider at
SliderValues ==
    {SliderMin + ((k * (SliderMax - SliderMin)) \div SliderSteps) : k \in 0..SliderSteps}

\* const std::array<glm::vec3, 2> directions
directions == << <<-600, 0, 0>>, <<-395, 0, 0>> >>

FrameIndex == 0..(NumFrames - 1)
Views == 0..MaxView

\* what a build can make of a call through an empty unique_ptr
UBOutcomes == {"crash", "continue"}

(***************************************************************************)
(* The world a member function works on: the object's fields joined with   *)
(* the history fields trace, builds, crashed and returned.                 *)
(***************************************************************************)
SampleFields ==
    {"prepared", "device", "camera", "models", "uniform_buffers", "ubo_common",
     "ubo_tess", "gui_settings", "descriptor_pool", "descriptor_set_layouts",
     "pipeline_layouts", "descriptor_sets", "pipeline", "draw_cmd_buffers",
     "framebuffers", "push_const_block", "current_buffer", "submit_info"}

World(s, g) ==
    s @@ [trace |-> <<>>, builds |-> g.builds, crashed |-> FALSE, returned |-> "void"]

ObjectOf(w) == [f \in SampleFields |-> w[f]]

Log(w, op, arg) == [w EXCEPT !.trace = Append(@, [op |-> op, arg |-> arg])]

Ops(trace) == [i \in 1..Len(trace) |-> trace[i].op]

Count(trace, op) == Len(SelectSeq(trace, LAMBDA e : e.op = op))

(***************************************************************************)
(* PatchControlPoints::PatchControlPoints and the members' initial values. *)
(***************************************************************************)
InitialSample(tess) ==
    [prepared               |-> FALSE,
     device                 |-> FALSE,
     camera                 |-> [type     |-> "default",
                                 matrices |-> [perspective |-> 0, view |-> 0],
                                 updated  |-> FALSE],
     models                 |-> [terrain_one |-> NULL, terrain_two |-> NULL],
     uniform_buffers        |-> [common                   |-> NULL,
                                 dynamically_tessellation |-> NULL,
                                 statically_tessellation  |-> NULL],
     ubo_common             |-> [projection |-> 0, view |-> 0],
     ubo_tess               |-> [tessellation_factor |-> 0],
     gui_settings           |-> [tessellation |-> tess, tess_factor |-> SliderMin],
     descriptor_pool        |-> NULL,
     descriptor_set_layouts |-> [dynamically_tessellation |-> NULL,
                                 statically_tessellation  |-> NULL],
     pipeline_layouts       |-> [dynamically_tessellation |-> NULL,
                                 statically_tessellation  |-> NULL],
     descriptor_sets        |-> [dynamically_tessellation |-> NULL,
                                 statically_tessellation  |-> NULL],
     pipeline               |-> [dynamically_tessellation |-> NULL,
                                 statically_tessellation  |-> NULL],
     draw_cmd_buffers       |-> <<>>,
     framebuffers           |-> <<>>,
     push_const_block       |-> [direction |-> <<0, 0, 0>>],
     current_buffer         |-> 0,
     submit_info            |-> [commandBufferCount |-> 0, pCommandBuffers |-> 0]]

InitialGpu(f) ==
    [features           |-> f,
     requested_features |-> [tessellationShader |-> FALSE,
                             fillModeNonSolid   |-> FALSE,
                             samplerAnisotropy  |-> FALSE],
     requested_extension_features |-> {},
     thrown             |-> "none"]

GpuFeatureSets ==
    [tessellationShader : BOOLEAN, fillModeNonSolid : BOOLEAN, samplerAnisotropy : BOOLEAN]

Init ==
    \E tess \in BOOLEAN, f \in GpuFeatureSets :
        /\ sample = InitialSample(tess)
        /\ gpu = InitialGpu(f)
        /\ phase = "constructed"
        /\ ghost = [last_call |-> "constructor",
                    trace     |-> <<>>,
                    builds    |-> 0,
                    returned  |-> "void"]


(***************************************************************************)
(* Framework pieces the sample calls (ApiVulkanSample, vkb::Camera,        *)
(* vkb::core::Buffer, load_model).                                         *)
(***************************************************************************)
\* ApiVulkanSample::prepare: on success the device, the render pass, one
\* framebuffer and one empty draw command buffer per swapchain image exist.
\* A failure happens before or after the device was created.
BaseOutcomes == {"ok", "fail_before_device", "fail_after_device"}

ApiVulkanSample_prepare(w, base) ==
    IF base = "ok"
    THEN Log([w EXCEPT !.device = TRUE,
                       !.draw_cmd_buffers = [i \in 1..NumFrames |-> <<>>],
                       !.framebuffers = [i \in 1..NumFrames |->
                                            [handle |-> "framebuffer", image |-> i - 1]]],
             "ApiVulkanSample::prepare", [ok |-> TRUE])
    ELSE Log([w EXCEPT !.device = (base = "fail_after_device")],
             "ApiVulkanSample::prepare", [ok |-> FALSE])

\* camera.set_position, set_rotation and set_perspective recompute the
\* matrices and flag the camera as updated.
camera_setup(w) ==
    [w EXCEPT !.camera = [type     |-> "LookAt",
                          matrices |-> [perspective |-> 1, view |-> 1],
                          updated  |-> TRUE]]

load_model(path) == [handle |-> "model", asset |-> path]

make_buffer(size_of) == [handle |-> "buffer", size_of |-> size_of, data |-> [uninitialized |-> TRUE]]

\* vkb::core::Buffer::convert_and_update copies the struct into the buffer
convert_and_update(buffer, value) == [buffer EXCEPT !.data = value]

\* ApiVulkanSample::prepare_frame acquires the next swapchain image
prepare_frame(w, image) ==
    Log([w EXCEPT !.current_buffer = image], "prepare_frame", [image |-> image])

submit_frame(w) == Log(w, "submit_frame", [image |-> w.current_buffer])

(***************************************************************************)
(* PatchControlPoints::load_assets                                         *)
(***************************************************************************)
load_assets(w) ==
    Log([w EXCEPT !.models = [terrain_one |-> load_model("scenes/terrain.gltf"),
                              terrain_two |-> load_model("scenes/terrain.gltf")]],
        "load_assets", [ok |-> w.device])

(***************************************************************************)
(* PatchControlPoints::update_uniform_buffers.  Each `->` on a uniform     *)
(* buffer dereferences a unique_ptr; on an empty one the behaviour is      *)
(* undefined, and `ub` chooses what the build makes of it: the process     *)
(* dies, or the call goes on with nothing written.                         *)
(***************************************************************************)
AllBuffersCreated(w) ==
    /\ w.uniform_buffers.common # NULL
    /\ w.uniform_buffers.dynamically_tessellation # NULL
    /\ w.uniform_buffers.statically_tessellation # NULL

write_buffer(w, name, value, ub) ==
    IF w.crashed THEN w
    ELSE IF w.uniform_buffers[name] = NULL
         THEN [w EXCEPT !.crashed = (ub = "crash")]
         ELSE [w EXCEPT !.uniform_buffers[name] = convert_and_update(@, value)]

tessellation_factor_of(gui_settings) ==
    IF ~gui_settings.tessellation THEN 0 ELSE gui_settings.tess_factor

\* update that forgets the statically_tessellation buffer
update_uniform_buffers_dynamic_only(w, ub) ==
    LET w1 == [w EXCEPT !.ubo_common = [projection |-> w.camera.matrices.perspective,
                                        view       |-> w.camera.matrices.view]]
        w2 == write_buffer(w1, "common", w1.ubo_common, ub)
        w3 == IF w2.crashed THEN w2
              ELSE [w2 EXCEPT !.ubo_tess.tessellation_factor =
                                  tessellation_factor_of(w2.gui_settings)]
        w4 == write_buffer(w3, "dynamically_tessellation", w3.ubo_tess, ub)
    IN  Log(w4, "update_uniform_buffers",
            [ok           |-> AllBuffersCreated(w),
             buffers      |-> w4.uniform_buffers,
             gui_settings |-> w4.gui_settings,
             matrices     |-> w4.camera.matrices])

update_uniform_buffers(w, ub) ==
    LET w1 == [w EXCEPT !.ubo_common = [projection |-> w.camera.matrices.perspective,
                                        view       |-> w.camera.matrices.view]]
        w2 == write_buffer(w1, "common", w1.ubo_common, ub)
        w3 == IF w2.crashed THEN w2
              ELSE [w2 EXCEPT !.ubo_tess.tessellation_factor =
                                  tessellation_factor_of(w2.gui_settings)]
        w4 == write_buffer(w3, "dynamically_tessellation", w3.ubo_tess, ub)
        w5 == write_buffer(w4, "statically_tessellation", w4.ubo_tess, ub)
    IN  Log(w5, "update_uniform_buffers",
            [ok           |-> AllBuffersCreated(w),
             buffers      |-> w5.uniform_buffers,
             gui_settings |-> w5.gui_settings,
             matrices     |-> w5.camera.matrices])

(***************************************************************************)
(* PatchControlPoints::prepare_uniform_buffers                             *)
(***************************************************************************)
prepare_uniform_buffers(w, ub) ==
    LET w1 == Log([w EXCEPT !.uniform_buffers =
                       [common                   |-> make_buffer("ubo_common"),
                        dynamically_tessellation |-> make_buffer("ubo_tess"),
                        statically_tessellation  |-> make_buffer("ubo_tess")]],
                  "prepare_uniform_buffers", [ok |-> w.device])
    IN  update_uniform_buffers(w1, ub)

(***************************************************************************)
(* PatchControlPoints::create_descriptor_pool                              *)
(***************************************************************************)
create_descriptor_pool(w) ==
    Log([w EXCEPT !.descriptor_pool =
             [handle |-> "descriptor_pool", uniform_buffers |-> 5,
              combined_image_samplers |-> 1, max_sets |-> 3]],
        "create_descriptor_pool", [ok |-> w.device])

(***************************************************************************)
(* PatchControlPoints::setup_descriptor_set_layout                         *)
(***************************************************************************)
set_layout(name) ==
    [handle |-> "descriptor_set_layout", name |-> name,
     bindings |-> << [binding |-> 0, type |-> "UNIFORM_BUFFER",
                      stages |-> {"TESSELLATION_EVALUATION", "VERTEX"}],
                     [binding |-> 1, type |-> "UNIFORM_BUFFER",
                      stages |-> {"TESSELLATION_CONTROL"}] >>]

pipeline_layout(name, dsl) ==
    [handle |-> "pipeline_layout", name |-> name, set_layout |-> dsl,
     push_constant_stages |-> {"VERTEX"}]

setup_descriptor_set_layout(w) ==
    LET s1 == set_layout("statically_tessellation")
        s2 == set_layout("dynamically_tessellation")
    IN  Log([w EXCEPT !.descriptor_set_layouts =
                          [statically_tessellation  |-> s1,
                           dynamically_tessellation |-> s2],
                      !.pipeline_layouts =
                          [statically_tessellation  |->
                               pipeline_layout("statically_tessellation", s1),
                           dynamically_tessellation |->
                               pipeline_layout("dynamically_tessellation", s2)]],
            "setup_descriptor_set_layout", [ok |-> w.device])

(***************************************************************************)
(* PatchControlPoints::create_descriptor_sets                              *)
(***************************************************************************)
descriptor_set(w, name) ==
    [handle   |-> "descriptor_set",
     name     |-> name,
     pool     |-> w.descriptor_pool,
     layout   |-> w.descriptor_set_layouts[name],
     bindings |-> <<"common", name>>]

create_descriptor_sets(w) ==
    Log([w EXCEPT !.descriptor_sets =
             [statically_tessellation  |-> descriptor_set(w, "statically_tessellation"),
              dynamically_tessellation |-> descriptor_set(w, "dynamically_tessellation")]],
        "create_descriptor_sets",
        [ok |-> /\ w.descriptor_pool # NULL
                /\ w.descriptor_set_layouts.statically_tessellation # NULL
                /\ w.descriptor_set_layouts.dynamically_tessellation # NULL
                /\ AllBuffersCreated(w)])

(***************************************************************************)
(* PatchControlPoints::create_pipelines                                    *)
(***************************************************************************)
\* std::vector<VkDynamicState> dynamic_state_enables; the push_back of
\* VK_DYNAMIC_STATE_PATCH_CONTROL_POINTS_EXT for the second pipeline is
\* commented out in the source, so both pipelines get this set.
dynamic_state_enables == {"VK_DYNAMIC_STATE_VIEWPORT", "VK_DYNAMIC_STATE_SCISSOR"}

graphics_pipeline(w, g, name, cache) ==
    [handle              |-> "pipeline",
     name                |-> name,
     layout              |-> w.pipeline_layouts[name],
     cache               |-> cache,
     topology            |-> "VK_PRIMITIVE_TOPOLOGY_PATCH_LIST",
     polygonMode         |-> IF g.features.fillModeNonSolid
                             THEN "VK_POLYGON_MODE_LINE" ELSE "VK_POLYGON_MODE_FILL",
     cullMode            |-> "VK_CULL_MODE_NONE",
     patchControlPoints  |-> 3,
     dynamic_states      |-> dynamic_state_enables,
     stageCount          |-> 4]

create_pipelines(w, g) ==
    Log([w EXCEPT !.pipeline =
             [statically_tessellation  |->
                  graphics_pipeline(w, g, "statically_tessellation", "pipeline_cache"),
              dynamically_tessellation |->
                  graphics_pipeline(w, g, "dynamically_tessellation", "VK_NULL_HANDLE")]],
        "create_pipelines",
        [ok |-> /\ w.pipeline_layouts.statically_tessellation # NULL
                /\ w.pipeline_layouts.dynamically_tessellation # NULL])


(***************************************************************************)
(* PatchControlPoints::build_command_buffers: what is recorded into the    *)
(* draw command buffer of swapchain image i (framebuffers[i]).             *)
(***************************************************************************)
Cmd(name, arg) == [cmd |-> name, arg |-> arg]

tessellation_commands(w, name, member, direction) ==
    << Cmd("vkCmdSetPrimitiveTopologyEXT",
           [topology |-> "VK_PRIMITIVE_TOPOLOGY_PATCH_LIST"]),
       Cmd("vkCmdSetPrimitiveRestartEnableEXT", [enable |-> TRUE]),
       Cmd("vkCmdBindDescriptorSets",
           [layout |-> w.pipeline_layouts[name], set |-> w.descriptor_sets[name]]),
       Cmd("vkCmdPushConstants",
           [layout |-> w.pipeline_layouts[name], stages |-> {"VERTEX"},
            direction |-> direction]),
       Cmd("vkCmdBindPipeline", [pipeline |-> w.pipeline[name]]),
       Cmd("draw_model", [member |-> member, model |-> w.models[member]]) >>

\* recording with the two push-constant directions exchanged
record_commands_swapped_directions(w, i) ==
    << Cmd("vkBeginCommandBuffer", [index |-> i]),
       Cmd("vkCmdBeginRenderPass",
           [framebuffer |-> w.framebuffers[i + 1], clear_values |-> 2]),
       Cmd("vkCmdSetViewport", [count |-> 1]),
       Cmd("vkCmdSetScissor", [count |-> 1]) >>
    \o tessellation_commands(w, "statically_tessellation", "terrain_one", directions[2])
    \o tessellation_commands(w, "dynamically_tessellation", "terrain_two", directions[1])
    \o << Cmd("draw_ui", [index |-> i]),
          Cmd("vkCmdEndRenderPass", [index |-> i]),
          Cmd("vkEndCommandBuffer", [index |-> i]) >>

record_commands(w, i) ==
    << Cmd("vkBeginCommandBuffer", [index |-> i]),
       Cmd("vkCmdBeginRenderPass",
           [framebuffer |-> w.framebuffers[i + 1], clear_values |-> 2]),
       Cmd("vkCmdSetViewport", [count |-> 1]),
       Cmd("vkCmdSetScissor", [count |-> 1]) >>
    \o tessellation_commands(w, "statically_tessellation", "terrain_one", directions[1])
    \o tessellation_commands(w, "dynamically_tessellation", "terrain_two", directions[2])
    \o << Cmd("draw_ui", [index |-> i]),
          Cmd("vkCmdEndRenderPass", [index |-> i]),
          Cmd("vkEndCommandBuffer", [index |-> i]) >>

build_command_buffers(w) ==
    Log([w EXCEPT !.draw_cmd_buffers =
                      [k \in 1..Len(w.draw_cmd_buffers) |-> record_commands(w, k - 1)],
                  !.push_const_block.direction =
                      IF Len(w.draw_cmd_buffers) > 0 THEN directions[2] ELSE @,
                  !.builds = @ + 1],
        "build_command_buffers",
        [ok |-> /\ w.pipeline.statically_tessellation # NULL
                /\ w.pipeline.dynamically_tessellation # NULL
                /\ w.descriptor_sets.statically_tessellation # NULL
                /\ w.descriptor_sets.dynamically_tessellation # NULL
                /\ w.models.terrain_one # NULL
                /\ w.models.terrain_two # NULL
                /\ Len(w.framebuffers) = Len(w.draw_cmd_buffers)])

(***************************************************************************)
(* PatchControlPoints::prepare                                             *)
(***************************************************************************)
\* prepare that tests the base class's result only after loading the assets
prepare_checks_base_late(w, g, base, ub) ==
    LET b  == ApiVulkanSample_prepare(w, base)
        w1 == camera_setup(b)
        w2 == load_assets(w1)
    IN  IF ~b.trace[Len(b.trace)].arg.ok
        THEN [w2 EXCEPT !.returned = "false"]
        ELSE LET w3 == prepare_uniform_buffers(w2, ub)
                 w4 == create_descriptor_pool(w3)
                 w5 == setup_descriptor_set_layout(w4)
                 w6 == create_descriptor_sets(w5)
                 w7 == create_pipelines(w6, g)
                 w8 == build_command_buffers(w7)
             IN  IF w3.crashed THEN w3
                 ELSE [w8 EXCEPT !.prepared = TRUE, !.returned = "true"]

\* prepare with the descriptor sets allocated before the pool and the layouts exist
prepare_sets_before_pool(w, g, base, ub) ==
    LET b == ApiVulkanSample_prepare(w, base)
    IN  IF ~b.trace[Len(b.trace)].arg.ok
        THEN [b EXCEPT !.returned = "false"]
        ELSE LET w1 == camera_setup(b)
                 w2 == load_assets(w1)
                 w3 == prepare_uniform_buffers(w2, ub)
                 w4 == create_descriptor_sets(w3)
                 w5 == create_descriptor_pool(w4)
                 w6 == setup_descriptor_set_layout(w5)
                 w7 == create_pipelines(w6, g)
                 w8 == build_command_buffers(w7)
             IN  IF w3.crashed THEN w3
                 ELSE [w8 EXCEPT !.prepared = TRUE, !.returned = "true"]

prepare(w, g, base, ub) ==
    LET b == ApiVulkanSample_prepare(w, base)
    IN  IF ~b.trace[Len(b.trace)].arg.ok
        THEN [b EXCEPT !.returned = "false"]
        ELSE LET w1 == camera_setup(b)
                 w2 == load_assets(w1)
                 w3 == prepare_uniform_buffers(w2, ub)
                 w4 == create_descriptor_pool(w3)
                 w5 == setup_descriptor_set_layout(w4)
                 w6 == create_descriptor_sets(w5)
                 w7 == create_pipelines(w6, g)
                 w8 == build_command_buffers(w7)
             IN  IF w3.crashed THEN w3
                 ELSE [w8 EXCEPT !.prepared = TRUE, !.returned = "true"]

(***************************************************************************)
(* PatchControlPoints::draw and PatchControlPoints::render                 *)
(***************************************************************************)
queue_submit(w) ==
    Log(w, "vkQueueSubmit",
        [commandBufferCount |-> w.submit_info.commandBufferCount,
         index              |-> w.submit_info.pCommandBuffers,
         commands           |-> w.draw_cmd_buffers[w.submit_info.pCommandBuffers + 1]])

\* draw that fills submit_info before the next image is acquired
draw_submit_info_before_acquire(w, image) ==
    LET w1 == [w EXCEPT !.submit_info = [commandBufferCount |-> 1,
                                         pCommandBuffers    |-> w.current_buffer]]
        w2 == prepare_frame(w1, image)
        w3 == queue_submit(w2)
    IN  submit_frame(w3)

draw(w, image) ==
    LET w1 == prepare_frame(w, image)
        w2 == [w1 EXCEPT !.submit_info = [commandBufferCount |-> 1,
                                          pCommandBuffers    |-> w1.current_buffer]]
        w3 == queue_submit(w2)
    IN  submit_frame(w3)

\* render that refreshes the uniform buffers on every frame
render_always_updates(w, image, ub) ==
    IF ~w.prepared
    THEN w
    ELSE update_uniform_buffers(draw(w, image), ub)

render(w, image, ub) ==
    IF ~w.prepared
    THEN w
    ELSE LET w1 == draw(w, image)
         IN  IF w1.camera.updated THEN update_uniform_buffers(w1, ub) ELSE w1

(***************************************************************************)
(* PatchControlPoints::request_gpu_features                                *)
(***************************************************************************)
\* requesting the optional features before the tessellation check
request_gpu_features_optional_first(g) ==
    LET g1 == [g EXCEPT !.requested_extension_features =
                   @ \cup {"extendedDynamicState2",
                           "extendedDynamicState2PatchControlPoints",
                           "extendedDynamicState"}]
        g2 == IF g1.features.fillModeNonSolid
              THEN [g1 EXCEPT !.requested_features.fillModeNonSolid = TRUE]
              ELSE g1
        g3 == IF g2.features.samplerAnisotropy
              THEN [g2 EXCEPT !.requested_features.samplerAnisotropy = TRUE]
              ELSE g2
    IN  IF g3.features.tessellationShader
        THEN [g3 EXCEPT !.requested_features.tessellationShader = TRUE]
        ELSE [g3 EXCEPT !.thrown = "VK_ERROR_FEATURE_NOT_PRESENT"]

request_gpu_features(g) ==
    LET g1 == [g EXCEPT !.requested_extension_features =
                   @ \cup {"extendedDynamicState2",
                           "extendedDynamicState2PatchControlPoints",
                           "extendedDynamicState"}]
    IN  IF g1.features.tessellationShader
        THEN LET g2 == [g1 EXCEPT !.requested_features.tessellationShader = TRUE]
                 g3 == IF g2.features.fillModeNonSolid
                       THEN [g2 EXCEPT !.requested_features.fillModeNonSolid = TRUE]
                       ELSE g2
             IN  IF g3.features.samplerAnisotropy
                 THEN [g3 EXCEPT !.requested_features.samplerAnisotropy = TRUE]
                 ELSE g3
        ELSE [g1 EXCEPT !.thrown = "VK_ERROR_FEATURE_NOT_PRESENT"]

(***************************************************************************)
(* PatchControlPoints::on_update_ui_overlay.  The drawer's answers are the *)
(* inputs: whether the header is open, whether the checkbox was clicked    *)
(* (it then holds the toggled value) and where the slider stands (it       *)
(* reports a change when that differs from the stored factor).             *)
(***************************************************************************)
checkbox(w, clicked) ==
    Log(IF clicked THEN [w EXCEPT !.gui_settings.tessellation = ~@] ELSE w,
        "checkbox", [changed |-> clicked])

slider_float(w, position) ==
    Log([w EXCEPT !.gui_settings.tess_factor = position],
        "slider_float", [changed |-> (position # w.gui_settings.tess_factor)])

Last(trace) == trace[Len(trace)]

\* an overlay handler that re-records the command buffers after a change
on_update_ui_overlay_rebuilds(w, header, clicked, position, ub) ==
    IF ~header
    THEN Log(w, "header", [open |-> FALSE])
    ELSE LET w0 == Log(w, "header", [open |-> TRUE])
             w1 == checkbox(w0, clicked)
             w2 == IF Last(w1.trace).arg.changed
                   THEN update_uniform_buffers(w1, ub) ELSE w1
             w3 == slider_float(w2, position)
             w4 == IF Last(w3.trace).arg.changed
                   THEN build_command_buffers(update_uniform_buffers(w3, ub)) ELSE w3
         IN  IF w2.crashed THEN w2 ELSE w4

on_update_ui_overlay(w, header, clicked, position, ub) ==
    IF ~header
    THEN Log(w, "header", [open |-> FALSE])
    ELSE LET w0 == Log(w, "header", [open |-> TRUE])
             w1 == checkbox(w0, clicked)
             w2 == IF Last(w1.trace).arg.changed
                   THEN update_uniform_buffers(w1, ub) ELSE w1
             w3 == slider_float(w2, position)
             w4 == IF Last(w3.trace).arg.changed
                   THEN update_uniform_buffers(w3, ub) ELSE w3
         IN  IF w2.crashed THEN w2 ELSE w4

(***************************************************************************)
(* PatchControlPoints::~PatchControlPoints                                 *)
(***************************************************************************)
destructor(w) ==
    IF w.device
    THEN Log([w EXCEPT !.uniform_buffers = [common                   |-> NULL,
                                            dynamically_tessellation |-> NULL,
                                            statically_tessellation  |-> NULL]],
             "destroy", [device |-> TRUE])
    ELSE w

(***************************************************************************)
(* The actions: one per call the framework makes into the sample, and the  *)
(* camera's own changes between calls.                                     *)
(***************************************************************************)
Live == {"constructed", "features_requested", "running", "failed"}

\* the choice matters only where an empty uniform buffer can be dereferenced
UBChoices == IF AllBuffersCreated(sample) THEN {"continue"} ELSE UBOutcomes

Return(name, w) ==
    /\ sample' = ObjectOf(w)
    /\ ghost' = [last_call |-> name,
                 trace     |-> w.trace,
                 builds    |-> w.builds,
                 returned  |-> w.returned]

RequestGpuFeatures ==
    /\ phase = "constructed"
    /\ gpu' = request_gpu_features(gpu)
    /\ phase' = IF gpu'.thrown # "none" THEN "failed" ELSE "features_requested"
    /\ Return("request_gpu_features", World(sample, ghost))

Prepare ==
    /\ phase = "features_requested"
    /\ \E base \in BaseOutcomes, ub \in UBOutcomes :
          LET w == prepare(World(sample, ghost), gpu, base, ub)
          IN  /\ Return("prepare", w)
              /\ phase' = IF w.crashed THEN "crashed"
                          ELSE IF w.returned = "true" THEN "running" ELSE "failed"
    /\ UNCHANGED gpu

Render ==
    /\ phase \in Live
    /\ \E image \in FrameIndex, ub \in UBChoices :
          LET w == render(World(sample, ghost), image, ub)
          IN  /\ Return("render", w)
              /\ phase' = IF w.crashed THEN "crashed" ELSE phase
    /\ UNCHANGED gpu

OnUpdateUiOverlay ==
    /\ phase \in Live
    /\ \E header \in BOOLEAN, clicked \in BOOLEAN, position \in SliderValues,
          ub \in UBChoices :
          LET w == on_update_ui_overlay(World(sample, ghost), header, clicked, position, ub)
          IN  /\ Return("on_update_ui_overlay", w)
              /\ phase' = IF w.crashed THEN "crashed" ELSE phase
    /\ UNCHANGED gpu

\* user input moves the LookAt camera: the view matrix is recomputed
CameraInput ==
    /\ phase = "running"
    /\ \E v \in Views \ {sample.camera.matrices.view} :
          Return("camera_input",
                 World([sample EXCEPT !.camera.matrices.view = v,
                                      !.camera.updated = TRUE], ghost))
    /\ UNCHANGED <<gpu, phase>>

\* vkb::Camera::update clears the flag at the start of a frame
CameraUpdate ==
    /\ phase = "running"
    /\ sample.camera.updated
    /\ Return("camera_update",
              World([sample EXCEPT !.camera.updated = FALSE], ghost))
    /\ UNCHANGED <<gpu, phase>>

Destroy ==
    /\ phase \in Live
    /\ Return("destructor", destructor(World(sample, ghost)))
    /\ phase' = "destroyed"
    /\ UNCHANGED gpu

Next ==
    \/ RequestGpuFeatures
    \/ Prepare
    \/ Render
    \/ OnUpdateUiOverlay
    \/ CameraInput
    \/ CameraUpdate
    \/ Destroy

Spec == Init /\ [][Next]_vars


(***************************************************************************)
(* Properties.                                                             *)
(***************************************************************************)
Alive == phase # "destroyed"

HandlesCreated(s) ==
    /\ s.descriptor_pool # NULL
    /\ \A n \in {"statically_tessellation", "dynamically_tessellation"} :
          /\ s.descriptor_set_layouts[n] # NULL
          /\ s.pipeline_layouts[n] # NULL
          /\ s.descriptor_sets[n] # NULL
          /\ s.pipeline[n] # NULL

CommandBuffersRecorded(s) ==
    /\ Len(s.draw_cmd_buffers) = NumFrames
    /\ \A k \in 1..Len(s.draw_cmd_buffers) : s.draw_cmd_buffers[k] # <<>>

PrepareOrder ==
    << "ApiVulkanSample::prepare", "load_assets", "prepare_uniform_buffers",
       "update_uniform_buffers", "create_descriptor_pool",
       "setup_descriptor_set_layout", "create_descriptor_sets", "create_pipelines",
       "build_command_buffers" >>

\* C1: a successful prepare() runs its steps once and in the documented order,
\* each step finding the resources it consumes already created, and sets
\* prepared last; wherever prepared is true (and the object is not destroyed)
\* the uniform buffers, pool, layouts, descriptor sets, pipelines and recorded
\* command buffers exist.
C1_PrepareInitializesInOrder ==
    /\ (sample.prepared /\ Alive) =>
          /\ AllBuffersCreated(sample)
          /\ HandlesCreated(sample)
          /\ CommandBuffersRecorded(sample)
          /\ ghost.builds = 1
    /\ (~sample.prepared) => ghost.builds = 0
    /\ (ghost.last_call = "prepare" /\ sample.prepared) =>
          /\ Ops(ghost.trace) = PrepareOrder
          /\ \A k \in 1..Len(ghost.trace) : ghost.trace[k].arg.ok
          /\ ghost.returned = "true"

C1_Witness ==
    /\ ghost.last_call = "prepare"
    /\ sample.prepared
    /\ phase = "running"


UpdatesIn(trace) == Count(trace, "update_uniform_buffers")

ReportsChange(e) == e.op \in {"checkbox", "slider_float"} /\ e.arg.changed

\* C2: the uniform buffers are updated when camera or UI state changes.  A
\* render() on a prepared sample calls update_uniform_buffers exactly when
\* camera.updated is set; on_update_ui_overlay calls it once right after each
\* control (checkbox, slider) that reports a change, and not at all while the
\* header is closed; a call in which nothing changed leaves the uniform
\* buffers as they were.
C2_UpdateOnChangeOnly ==
    /\ [](/\ (ghost.last_call = "render" /\ sample.prepared) =>
                UpdatesIn(ghost.trace) = (IF sample.camera.updated THEN 1 ELSE 0)
          /\ (ghost.last_call = "render" /\ ~sample.prepared) =>
                UpdatesIn(ghost.trace) = 0
          /\ (ghost.last_call = "on_update_ui_overlay") =>
                /\ ghost.trace[1].op = "header"
                /\ (~ghost.trace[1].arg.open) => Len(ghost.trace) = 1
                /\ \A k \in 1..Len(ghost.trace) :
                      (ghost.trace[k].op = "update_uniform_buffers")
                          <=> (k > 1 /\ ReportsChange(ghost.trace[k - 1])))
    /\ [][(/\ ghost'.last_call \in {"render", "on_update_ui_overlay"}
           /\ UpdatesIn(ghost'.trace) = 0)
              => sample'.uniform_buffers = sample.uniform_buffers]_vars

C2_Witness ==
    /\ phase = "running"
    /\ ghost.last_call = "on_update_ui_overlay"
    /\ UpdatesIn(ghost.trace) = 2

\* C3: the command buffers are fixed.  build_command_buffers runs once, from
\* prepare(); what it recorded is what it would record under any other camera
\* pose and any other GUI setting; and no later call changes a recorded
\* command buffer.
C3_CommandBuffersFixed ==
    /\ [](/\ ghost.builds <= 1
          /\ (ghost.builds = 1) =>
                \A k \in 1..Len(ghost.trace) :
                    (ghost.trace[k].op = "build_command_buffers")
                        => ghost.last_call = "prepare"
          /\ (ghost.last_call # "prepare") =>
                Count(ghost.trace, "build_command_buffers") = 0
          /\ sample.prepared =>
                \A i \in FrameIndex, tess \in BOOLEAN, f \in SliderValues, v \in Views :
                    record_commands(
                        [sample EXCEPT !.gui_settings = [tessellation |-> tess,
                                                         tess_factor  |-> f],
                                       !.camera.matrices.view = v,
                                       !.camera.updated = ~@], i)
                    = sample.draw_cmd_buffers[i + 1])
    /\ [][sample.prepared =>
             /\ sample'.draw_cmd_buffers = sample.draw_cmd_buffers
             /\ ghost'.builds = ghost.builds]_vars

C3_Witness ==
    /\ sample.prepared
    /\ ghost.last_call = "on_update_ui_overlay"
    /\ UpdatesIn(ghost.trace) > 0
    /\ sample.camera.matrices.view # 1


(***************************************************************************)
(* Reading a recorded command buffer the way the device executes it: each  *)
(* draw uses the pipeline and push constants most recently set before it.  *)
(***************************************************************************)
Positions(cmds, name) == {j \in 1..Len(cmds) : cmds[j].cmd = name}

Indices(cmds, name) ==
    SelectSeq([j \in 1..Len(cmds) |-> j], LAMBDA j : cmds[j].cmd = name)

LastBefore(cmds, k, name) ==
    LET S == {j \in Positions(cmds, name) : j < k}
    IN  IF S = {} THEN 0 ELSE CHOOSE j \in S : \A l \in S : l <= j

DrawIs(cmds, k, member, name, direction) ==
    LET p == LastBefore(cmds, k, "vkCmdBindPipeline")
        c == LastBefore(cmds, k, "vkCmdPushConstants")
    IN  /\ cmds[k].arg.member = member
        /\ cmds[k].arg.model # NULL
        /\ cmds[k].arg.model.asset = "scenes/terrain.gltf"
        /\ p > 0
        /\ cmds[p].arg.pipeline # NULL
        /\ cmds[p].arg.pipeline.name = name
        /\ c > 0
        /\ cmds[c].arg.direction = direction

\* C4: every recorded draw command buffer renders the same terrain with the
\* two pipelines side by side: within its one render pass exactly two model
\* draws, terrain_one with the statically_tessellation pipeline and direction
\* (-6.00, 0, 0), then terrain_two with the dynamically_tessellation pipeline
\* and direction (-3.95, 0, 0), then the UI draw and the end of the render
\* pass; both models come from scenes/terrain.gltf and command buffer i
\* targets framebuffer i.
C4_SideBySideDraws ==
    sample.prepared =>
        /\ sample.models.terrain_one.asset = "scenes/terrain.gltf"
        /\ sample.models.terrain_two.asset = sample.models.terrain_one.asset
        /\ \A i \in FrameIndex :
              LET cmds  == sample.draw_cmd_buffers[i + 1]
                  draws == Indices(cmds, "draw_model")
                  begin == Indices(cmds, "vkCmdBeginRenderPass")
                  end   == Indices(cmds, "vkCmdEndRenderPass")
              IN  /\ Len(begin) = 1
                  /\ Len(end) = 1
                  /\ cmds[begin[1]].arg.framebuffer = sample.framebuffers[i + 1]
                  /\ cmds[begin[1]].arg.framebuffer.image = i
                  /\ Len(draws) = 2
                  /\ begin[1] < draws[1]
                  /\ DrawIs(cmds, draws[1], "terrain_one", "statically_tessellation",
                            <<-600, 0, 0>>)
                  /\ DrawIs(cmds, draws[2], "terrain_two", "dynamically_tessellation",
                            <<-395, 0, 0>>)
                  /\ cmds[draws[2] + 1].cmd = "draw_ui"
                  /\ end[1] = draws[2] + 2

C4_Witness ==
    /\ sample.prepared
    /\ ghost.last_call = "render"
    /\ Count(ghost.trace, "vkQueueSubmit") = 1
    /\ sample.current_buffer = NumFrames - 1

\* C5: both pipeline-state extensions are used: every recorded command buffer
\* sets the primitive topology and primitive restart dynamically, the
\* dynamically_tessellation pipeline has the patch-control-points dynamic
\* state enabled and gets its patch control point count (3) from a command
\* recorded after it is bound and before terrain_two is drawn, and the
\* statically_tessellation pipeline takes the count (3) from its static state.
C5_BothExtensionsUsed ==
    sample.prepared =>
        /\ "VK_DYNAMIC_STATE_PATCH_CONTROL_POINTS_EXT"
              \in sample.pipeline.dynamically_tessellation.dynamic_states
        /\ "VK_DYNAMIC_STATE_PATCH_CONTROL_POINTS_EXT"
              \notin sample.pipeline.statically_tessellation.dynamic_states
        /\ sample.pipeline.statically_tessellation.patchControlPoints = 3
        /\ \A i \in FrameIndex :
              LET cmds  == sample.draw_cmd_buffers[i + 1]
                  draws == Indices(cmds, "draw_model")
                  bind  == LastBefore(cmds, draws[2], "vkCmdBindPipeline")
              IN  /\ Positions(cmds, "vkCmdSetPrimitiveTopologyEXT") # {}
                  /\ Positions(cmds, "vkCmdSetPrimitiveRestartEnableEXT") # {}
                  /\ \E k \in Positions(cmds, "vkCmdSetPatchControlPointsEXT") :
                        /\ bind < k
                        /\ k < draws[2]
                        /\ cmds[k].arg.patchControlPoints = patch_control_points_triangle

\* C6: request_gpu_features throws VK_ERROR_FEATURE_NOT_PRESENT when the GPU
\* lacks tessellationShader and then has requested none of tessellationShader,
\* fillModeNonSolid, samplerAnisotropy; with tessellationShader present it
\* does not throw and tessellationShader is requested.  (The call has run
\* exactly where the extension features it asks for first are requested.)
C6_MissingTessellationThrows ==
    (gpu.requested_extension_features # {}) =>
        IF ~gpu.features.tessellationShader
        THEN /\ gpu.thrown = "VK_ERROR_FEATURE_NOT_PRESENT"
             /\ ~gpu.requested_features.tessellationShader
             /\ ~gpu.requested_features.fillModeNonSolid
             /\ ~gpu.requested_features.samplerAnisotropy
             /\ ~sample.prepared
        ELSE /\ gpu.thrown = "none"
             /\ gpu.requested_features.tessellationShader

C6_Witness ==
    /\ ghost.last_call = "request_gpu_features"
    /\ gpu.thrown = "VK_ERROR_FEATURE_NOT_PRESENT"
    /\ gpu.features.fillModeNonSolid
    /\ gpu.features.samplerAnisotropy


NothingSetUp(s) ==
    /\ s.models.terrain_one = NULL
    /\ s.models.terrain_two = NULL
    /\ s.uniform_buffers.common = NULL
    /\ s.uniform_buffers.dynamically_tessellation = NULL
    /\ s.uniform_buffers.statically_tessellation = NULL
    /\ s.descriptor_pool = NULL
    /\ \A n \in {"statically_tessellation", "dynamically_tessellation"} :
          /\ s.descriptor_set_layouts[n] = NULL
          /\ s.pipeline_layouts[n] = NULL
          /\ s.descriptor_sets[n] = NULL
          /\ s.pipeline[n] = NULL
    /\ \A k \in 1..Len(s.draw_cmd_buffers) : s.draw_cmd_buffers[k] = <<>>

\* C7: when ApiVulkanSample::prepare fails, prepare() returns false having run
\* no setup step, and prepared stays false; prepare() returns true only on the
\* path that sets prepared.
C7_BaseFailureSkipsSetup ==
    (ghost.last_call = "prepare") =>
        /\ ghost.trace[1].op = "ApiVulkanSample::prepare"
        /\ (~ghost.trace[1].arg.ok) =>
              /\ ghost.returned = "false"
              /\ Len(ghost.trace) = 1
              /\ ~sample.prepared
              /\ NothingSetUp(sample)
              /\ ghost.builds = 0
        /\ (ghost.returned = "true") <=> sample.prepared
        /\ (ghost.returned = "true") => ghost.trace[1].arg.ok

C7_Witness ==
    /\ ghost.last_call = "prepare"
    /\ ghost.returned = "false"
    /\ sample.device

\* C8: render() does nothing while the sample is not prepared (no frame
\* acquired, nothing submitted, no uniform buffer written, the object
\* unchanged); on a prepared sample each render() submits exactly one command
\* buffer, draw_cmd_buffers[current_buffer] for the image just acquired, after
\* prepare_frame and before submit_frame.
C8_RenderNeedsPrepared ==
    /\ [](( ghost.last_call = "render") =>
             IF ~sample.prepared
             THEN ghost.trace = <<>>
             ELSE /\ Len(ghost.trace) >= 3
                  /\ ghost.trace[1].op = "prepare_frame"
                  /\ ghost.trace[2].op = "vkQueueSubmit"
                  /\ ghost.trace[3].op = "submit_frame"
                  /\ Count(ghost.trace, "vkQueueSubmit") = 1
                  /\ Count(ghost.trace, "prepare_frame") = 1
                  /\ Count(ghost.trace, "submit_frame") = 1
                  /\ ghost.trace[2].arg.commandBufferCount = 1
                  /\ ghost.trace[2].arg.index = ghost.trace[1].arg.image
                  /\ ghost.trace[2].arg.index = sample.current_buffer
                  /\ ghost.trace[2].arg.commands
                        = sample.draw_cmd_buffers[sample.current_buffer + 1]
                  /\ ghost.trace[2].arg.commands # <<>>)
    /\ [][(ghost'.last_call = "render" /\ ~sample.prepared) => sample' = sample]_vars

C8_Witness ==
    /\ ghost.last_call = "render"
    /\ sample.prepared
    /\ sample.current_buffer # 0
    /\ Len(ghost.trace) = 3

C8_WitnessUnprepared ==
    /\ ghost.last_call = "render"
    /\ ~sample.prepared
    /\ sample.device

UpdateWroteCurrentValues(e) ==
    /\ e.arg.buffers.dynamically_tessellation.data
          = e.arg.buffers.statically_tessellation.data
    /\ e.arg.buffers.dynamically_tessellation.data.tessellation_factor
          = (IF e.arg.gui_settings.tessellation THEN e.arg.gui_settings.tess_factor ELSE 0)
    /\ e.arg.buffers.common.data = [projection |-> e.arg.matrices.perspective,
                                    view       |-> e.arg.matrices.view]

\* C9: after every update_uniform_buffers call (on created buffers) the two
\* tessellation buffers hold the same factor, gui_settings.tess_factor when
\* gui_settings.tessellation is set and 0 otherwise, and the common buffer
\* holds the camera's current perspective and view matrices; so the two
\* tessellation buffers never differ, whatever UI and camera updates came
\* before.
C9_TessellationBuffersAgree ==
    /\ \A k \in 1..Len(ghost.trace) :
          (ghost.trace[k].op = "update_uniform_buffers" /\ ghost.trace[k].arg.ok)
              => UpdateWroteCurrentValues(ghost.trace[k])
    /\ AllBuffersCreated(sample) =>
          /\ sample.uniform_buffers.dynamically_tessellation.data
                = sample.uniform_buffers.statically_tessellation.data
          /\ sample.uniform_buffers.dynamically_tessellation.data.tessellation_factor
                = (IF sample.gui_settings.tessellation
                   THEN sample.gui_settings.tess_factor ELSE 0)
    /\ (/\ AllBuffersCreated(sample)
        /\ ghost.last_call \in {"prepare", "render", "on_update_ui_overlay"}
        /\ UpdatesIn(ghost.trace) > 0) =>
          sample.uniform_buffers.common.data
              = [projection |-> sample.camera.matrices.perspective,
                 view       |-> sample.camera.matrices.view]

C9_Witness ==
    /\ phase = "running"
    /\ ghost.last_call = "on_update_ui_overlay"
    /\ UpdatesIn(ghost.trace) = 2
    /\ ~sample.gui_settings.tessellation
    /\ sample.gui_settings.tess_factor = SliderMax
    /\ sample.uniform_buffers.common.data.view = MaxView

\* C10: the maximum tessellation factor is 4.0: whatever position the
\* 'Tessellation Factor' slider is left at, the factor update_uniform_buffers
\* writes to the uniform buffers is 0 or lies in [1.0, 4.0].
C10_TessFactorAtMostFour ==
    \A k \in 1..Len(ghost.trace) :
        (/\ ghost.last_call = "on_update_ui_overlay"
         /\ ghost.trace[k].op = "update_uniform_buffers"
         /\ ghost.trace[k].arg.ok) =>
            LET f == ghost.trace[k].arg.buffers.dynamically_tessellation.data.tessellation_factor
            IN  f = 0 \/ (SliderMin <= f /\ f <= DocumentedMaxTessFactor)


\* C11: whatever sequence of prepare(), render() and on_update_ui_overlay()
\* calls the framework loop makes, update_uniform_buffers runs only while the
\* common, dynamically_tessellation and statically_tessellation uniform
\* buffers are all created and not reset; a UI change reported before a
\* successful prepare() dereferences no uncreated uniform buffer.
C11_UpdateOnlyOnCreatedBuffers ==
    \A k \in 1..Len(ghost.trace) :
        (ghost.trace[k].op = "update_uniform_buffers") => ghost.trace[k].arg.ok


\* the same statement restricted to a prepared sample, where the code does
\* keep it: prepare() has created the three buffers before any later call
C11_HoldsOncePrepared ==
    sample.prepared => C11_UpdateOnlyOnCreatedBuffers

====
